---------------------------- MODULE Spec2Model ----------------------------
(***************************************************************************)
(* ITM stimulus-port writer of cortex-m (src/cortex-m/src/itm.rs).         *)
(*                                                                         *)
(* A call of write_all / write_aligned / write_str / write_fmt is run one  *)
(* port operation at a time: every `while !port.is_fifo_ready() {}` poll   *)
(* and every write_u8 / write_u16 / write_u32 is one step.  The code that  *)
(* runs between two port operations (pointer arithmetic, branches, calls   *)
(* and returns) belongs to the step of the port operation before it.       *)
(***************************************************************************)
EXTENDS Integers, Sequences, FiniteSets

VARIABLES
    entry,      \* entry point of the current call
    frags,      \* the byte slices the call hands to write_all / write_aligned_impl
    pat,        \* contents of memory (see Mem)
    fi,         \* index in frags of the slice being written
    pc,         \* "idle", "done", or the spin loop the call is at
    phase,      \* "spin": in `while !is_fifo_ready() {}`; "write": loop left, write next
    ptr,        \* `ptr` of write_all / write_aligned_impl
    len,        \* `len` of write_all / write_aligned_impl
    p,          \* `p` of write_words
    i,          \* iterations of write_words' loop completed
    left,       \* `left` of write_aligned_impl
    writes,     \* port writes issued by the call, in order
    reads,      \* memory reads of the call: [k: the slice being written, a: the address]
    polls,      \* is_fifo_ready calls since the last write
    stalls,     \* those of them that returned false
    readyPolls, \* is_fifo_ready calls of the call that returned true
    lastOp,     \* last port operation of the call
    fifoReady,  \* what is_fifo_ready returns
    hostGone,   \* the debug host stopped draining the port
    fmtFails,   \* write_fmt: an argument's formatter reports an error after frags
    results,    \* write_fmt: what Port::write_str returned, call by call
    outcome,    \* how the entry point came back to its caller ("none": it has not)
    irq,        \* the write_all call of an interrupt handler on the same port
    overrun,    \* a write was issued while the port was not ready
    stk,        \* singleton!: the executions of the call site in progress, innermost last
    VAR0,       \* singleton!: `$name.0`, the MaybeUninit value of the static
    VAR1,       \* singleton!: `$name.1`, the flag of the static
    rets,       \* singleton!: what each execution returned, in the order they entered the section
    csDepth     \* critical sections entered and not left (interrupts are off if > 0)

vars == <<entry, frags, pat, fi, pc, phase, ptr, len, p, i, left, writes,
          reads, polls, stalls, readyPolls, lastOp, fifoReady, hostGone,
          fmtFails, results, outcome, irq, overrun, stk, VAR0, VAR1, rets, csDepth>>

\* the state of the singleton! call site (src/cortex-m/src/macros.rs)
svars == <<stk, VAR0, VAR1, rets, csDepth>>

\* the state of the ITM writer (src/cortex-m/src/itm.rs)
ivars == <<entry, frags, pat, fi, pc, phase, ptr, len, p, i, left, writes,
           reads, polls, stalls, readyPolls, lastOp, fifoReady, hostGone,
           fmtFails, results, outcome, irq, overrun>>

---------------------------------------------------------------------------
(* Bounds *)

MaxLen == 14        \* longest slice of write_all / write_aligned / write_str
MaxFrags == 2       \* most string fragments of one write_fmt
MaxFragLen == 3     \* longest string fragment of a write_fmt
MaxExec == 3        \* most executions of the singleton! call site
MaxStall == 1       \* most not-ready polls before the host drains the port
BaseLo == 8         \* lowest base address

Bases == BaseLo .. BaseLo + 3
AlignedBases == {b \in Bases : b % 4 = 0}
Patterns == {[seed |-> 72, stride |-> 1], [seed |-> 5, stride |-> 37]}
Entries == {"write_all", "write_aligned", "write_str", "write_fmt"}

Slice(b, n) == [base |-> b, len |-> n]

RECURSIVE SeqsUpTo(_, _)
SeqsUpTo(S, n) ==
    IF n = 0 THEN {<<>>}
    ELSE LET shorter == SeqsUpTo(S, n - 1)
         IN shorter \cup {Append(s, x) : s \in {t \in shorter : Len(t) = n - 1}, x \in S}

---------------------------------------------------------------------------
(* Memory and the port's registers *)

\* the byte at address a; bytes are 7-bit (text), which keeps a 32-bit word
\* within the integers TLC computes with
Mem(pt, a) == (pt.seed + a * pt.stride) % 128

\* *ptr
ReadU8(pt, a) == Mem(pt, a)
ReadU16_swapped(pt, a) == 256 * Mem(pt, a) + Mem(pt, a + 1)

\* ptr::read(ptr as *const u16), little-endian
ReadU16(pt, a) == Mem(pt, a) + 256 * Mem(pt, a + 1)
\* ptr::read(p) of a *const u32, little-endian
ReadU32(pt, a) ==
    Mem(pt, a) + 256 * Mem(pt, a + 1) + 65536 * Mem(pt, a + 2) + 16777216 * Mem(pt, a + 3)

\* the addresses a read of w bits at a touches
Touched(a, w) == a .. (a + (w \div 8) - 1)

\* a write as the port receives it
WriteOp(w, v, a, site) == [w |-> w, v |-> v, a |-> a, site |-> site]

---------------------------------------------------------------------------
(* Control flow between two port operations.  A control point is the spin  *)
(* loop reached next, with the locals as they are there; pc "ret" is the   *)
(* return of write_all / write_aligned_impl.                               *)

At(loop, ptr_, len_, p_, i_, left_) ==
    [pc |-> loop, ptr |-> ptr_, len |-> len_, p |-> p_, i |-> i_, left |-> left_]

Ret == At("ret", 0, 0, 0, 0, 0)

SpinExits_once(ready, k) == TRUE
SpinExits_inverted(ready, k) == ~ready
SpinExits_timeout(ready, k) == ready \/ k >= MaxStall

\* `while !port.is_fifo_ready() {}`: the loop is left on a poll that returns
\* true, whatever the number k of polls that returned false before it
SpinExits(ready, k) == ready

Split_8(n) == n - (n % 8)

\* let split = len & !0b11
Split(n) == n - (n % 4)

\* split >> 2, the length of the &[u32] handed to write_words
WordCount(n) == Split(n) \div 4

\* len & 0b11
Left(n) == n % 4

OddAddress_mod4(a) == a % 4 = 1

\* ptr as usize % 2 == 1
OddAddress(a) == a % 2 = 1

HalfAligned_even(a) == a % 2 = 0

\* ptr as usize % 4 == 2
HalfAligned(a) == a % 4 = 2

\* write_aligned_impl, `if left == 1 { ... }`
FinalByte(ptr_, len_, left_) ==
    IF left_ = 1 THEN At("al_tail8", ptr_, len_, 0, 0, left_) ELSE Ret

TailStep_noadd(buf, len_) ==
    LET l == Left(len_)
    IN  IF l > 1 THEN At("al_tail16", buf, len_, 0, 0, l) ELSE FinalByte(buf, len_, l)

TailStep_gt2(buf, len_) ==
    LET l == Left(len_)
        t == buf + Split(len_)
    IN  IF l > 2 THEN At("al_tail16", t, len_, 0, 0, l) ELSE FinalByte(t, len_, l)

\* write_aligned_impl after write_words: left, ptr, `if left > 1 { ... }`
TailStep(buf, len_) ==
    LET l == Left(len_)
        t == buf + Split(len_)
    IN  IF l > 1 THEN At("al_tail16", t, len_, 0, 0, l) ELSE FinalByte(t, len_, l)

WordsLoop_short(buf, len_, p_, i_) ==
    IF i_ < WordCount(len_) - 1 THEN At("ww", buf, len_, p_, i_, 0) ELSE TailStep(buf, len_)

WordsLoop_over(buf, len_, p_, i_) ==
    IF i_ <= WordCount(len_) THEN At("ww", buf, len_, p_, i_, 0) ELSE TailStep(buf, len_)

\* write_words, head of `for _ in 0..bytes.len()`; back in write_aligned_impl
\* when the loop is over
WordsLoop(buf, len_, p_, i_) ==
    IF i_ < WordCount(len_) THEN At("ww", buf, len_, p_, i_, 0) ELSE TailStep(buf, len_)

\* write_aligned_impl from its first line to the first poll
AlignedImpl(buf, len_) ==
    IF len_ = 0 THEN Ret ELSE WordsLoop(buf, len_, buf, 0)

HalfStep_gt2(ptr_, len_) ==
    IF HalfAligned(ptr_)
    THEN IF len_ > 2 THEN At("wa_lead16", ptr_, len_, 0, 0, 0)
         ELSE IF len_ = 1 THEN At("wa_last8", ptr_, len_, 0, 0, 0)
         ELSE Ret
    ELSE At("al_entry", ptr_, len_, 0, 0, 0)

\* write_all from `if ptr as usize % 4 == 2` to the next poll, or to the call
\* of write_aligned_impl ("al_entry")
HalfStep(ptr_, len_) ==
    IF HalfAligned(ptr_)
    THEN IF len_ > 1 THEN At("wa_lead16", ptr_, len_, 0, 0, 0)
         ELSE IF len_ = 1 THEN At("wa_last8", ptr_, len_, 0, 0, 0)
         ELSE Ret
    ELSE At("al_entry", ptr_, len_, 0, 0, 0)

WriteAllStart_nocheck(b, n) ==
    IF OddAddress(b) THEN At("wa_lead8", b, n, 0, 0, 0) ELSE HalfStep(b, n)

\* write_all from its first line to the first poll
WriteAllStart(b, n) ==
    IF n = 0 THEN Ret
    ELSE IF OddAddress(b) THEN At("wa_lead8", b, n, 0, 0, 0)
    ELSE HalfStep(b, n)

\* the write the code issues when it leaves the spin loop of control point c
\* (none at "al_entry", which is no spin loop)
Issue(pt, c) ==
    CASE c.pc = "wa_lead8" -> WriteOp(8, ReadU8(pt, c.ptr), c.ptr, "lead")
      [] c.pc = "wa_lead16" -> WriteOp(16, ReadU16(pt, c.ptr), c.ptr, "lead")
      [] c.pc = "wa_last8" -> WriteOp(8, ReadU8(pt, c.ptr), c.ptr, "lead")
      [] c.pc = "ww" -> WriteOp(32, ReadU32(pt, c.p), c.p, "words")
      [] c.pc = "al_tail16" -> WriteOp(16, ReadU16(pt, c.ptr), c.ptr, "tail")
      [] c.pc = "al_tail8" -> WriteOp(8, ReadU8(pt, c.ptr), c.ptr, "tail")

\* the control point the code reaches after that write (after the call of
\* write_aligned_impl at "al_entry")
After(c) ==
    CASE c.pc = "wa_lead8" -> HalfStep(c.ptr + 1, c.len - 1)
      [] c.pc = "wa_lead16" -> At("al_entry", c.ptr + 2, c.len - 2, 0, 0, 0)
      [] c.pc = "wa_last8" -> Ret
      [] c.pc = "al_entry" -> AlignedImpl(c.ptr, c.len)
      [] c.pc = "ww" -> WordsLoop(c.ptr, c.len, c.p + 4, c.i + 1)
      [] c.pc = "al_tail16" -> FinalByte(c.ptr + 2, c.len, c.left - 2)
      [] c.pc = "al_tail8" -> Ret

\* the writes the code issues from control point c to its return, one spin
\* loop before each
RECURSIVE OpsFrom(_, _)
OpsFrom(pt, c) ==
    IF c.pc = "ret" THEN <<>>
    ELSE IF c.pc = "al_entry" THEN OpsFrom(pt, After(c))
    ELSE <<Issue(pt, c)>> \o OpsFrom(pt, After(c))

\* the function an entry point runs on a slice: write_aligned calls
\* write_aligned_impl; write_str, and Port::write_str for every fragment of a
\* write_fmt, call write_all
Start_aligned(e, s) == AlignedImpl(s.base, s.len)

Start(e, s) ==
    IF e = "write_aligned" THEN AlignedImpl(s.base, s.len) ELSE WriteAllStart(s.base, s.len)

\* the first poll at or after slice k of the call, or its return
RECURSIVE Run(_, _, _)
Run(e, fs, k) ==
    IF k > Len(fs) THEN [c |-> At("done", 0, 0, 0, 0, 0), fi |-> k]
    ELSE LET c == Start(e, fs[k])
         IN  IF c.pc = "ret" THEN Run(e, fs, k + 1) ELSE [c |-> c, fi |-> k]

\* where the call goes on from control point c of slice fi
Resume(c) == IF c.pc = "ret" THEN Run(entry, frags, fi + 1) ELSE [c |-> c, fi |-> fi]

Goto(r) ==
    /\ pc' = r.c.pc
    /\ ptr' = r.c.ptr
    /\ len' = r.c.len
    /\ p' = r.c.p
    /\ i' = r.c.i
    /\ left' = r.c.left
    /\ fi' = r.fi

\* Port::write_str: `write_all(self.0, s.as_bytes()); Ok(())`, whatever the port
\* last reported
WriteStrResult(ready) == "Ok"

\* Port(port).write_fmt(args): core::fmt::write fails when a formatter of an
\* argument or a write_str of the sink fails
FmtResult(rs, fails) ==
    IF fails \/ (\E k \in 1 .. Len(rs) : rs[k] = "Err") THEN "Err" ELSE "Ok"

WriteFmtReturns_unwrap(r) == IF r = "Err" THEN "panic" ELSE "unit"

\* write_fmt: `.ok();` turns the fmt::Result into an Option and drops it
WriteFmtReturns(r) == "unit"

\* the results of the Port::write_str calls that return on the way to r, and
\* how the entry point returns if r is its end
Account(e, fails, r, from, ready) ==
    /\ results' = IF e = "write_fmt"
                  THEN results \o [k \in 1 .. r.fi - from |-> WriteStrResult(ready)]
                  ELSE results
    /\ outcome' = IF r.c.pc # "done" THEN "none"
                  ELSE IF e = "write_fmt" THEN WriteFmtReturns(FmtResult(results', fails))
                  ELSE "unit"

\* the handler's call: not begun, at a control point, or returned
IrqOff == [c |-> At("off", 0, 0, 0, 0, 0), phase |-> "spin", n |-> 0]

\* an interrupt handler runs and the interrupted code waits
Preempted == irq.c.pc \notin {"off", "done"}

SpinLoops == {"wa_lead8", "wa_lead16", "wa_last8", "ww", "al_tail16", "al_tail8"}
InCall == pc \in SpinLoops
Returned == pc = "done"

---------------------------------------------------------------------------
(* The state before the first call *)

Init ==
    /\ entry = "write_all"
    /\ frags = <<>>
    /\ pat \in Patterns
    /\ fi = 1
    /\ pc = "idle"
    /\ phase = "spin"
    /\ ptr = 0 /\ len = 0 /\ p = 0 /\ i = 0 /\ left = 0
    /\ writes = <<>>
    /\ reads = {}
    /\ polls = 0 /\ stalls = 0 /\ readyPolls = 0
    /\ lastOp = "none"
    /\ fifoReady \in BOOLEAN
    /\ hostGone = FALSE
    /\ fmtFails = FALSE
    /\ results = <<>>
    /\ outcome = "none"
    /\ irq = IrqOff
    /\ overrun = FALSE
    /\ stk = <<>>
    /\ VAR0 = "uninit"
    /\ VAR1 = FALSE
    /\ rets = <<>>
    /\ csDepth = 0

\* the slices an entry point can be called with
Inputs(e) ==
    CASE e = "write_aligned" -> {<<Slice(b, n)>> : b \in AlignedBases, n \in 0 .. MaxLen}
      [] e = "write_fmt" ->
            SeqsUpTo({Slice(b, n) : b \in Bases, n \in 0 .. MaxFragLen}, MaxFrags)
      [] OTHER -> {<<Slice(b, n)>> : b \in Bases, n \in 0 .. MaxLen}

\* a call of an entry point among E, up to its first poll (or its return when
\* it polls nothing)
CallOf(E) ==
    /\ pc = "idle"
    /\ \E e \in E : \E fs \in Inputs(e) :
       \E fails \in (IF e = "write_fmt" THEN BOOLEAN ELSE {FALSE}) :
          /\ entry' = e
          /\ frags' = fs
          /\ fmtFails' = fails
          /\ Goto(Run(e, fs, 1))
          /\ Account(e, fails, Run(e, fs, 1), 1, fifoReady)
    /\ phase' = "spin"
    /\ writes' = <<>>
    /\ reads' = {}
    /\ polls' = 0 /\ stalls' = 0 /\ readyPolls' = 0
    /\ lastOp' = "none"
    /\ UNCHANGED <<pat, fifoReady, hostGone>>
    /\ UNCHANGED <<irq, overrun>>
    /\ UNCHANGED svars

\* a call of any entry point
Call == CallOf(Entries)

\* a call of the byte writers themselves
CallDirect == CallOf({"write_all", "write_aligned"})

---------------------------------------------------------------------------
(* The spin loops *)

\* a poll that leaves the loop
PollExit ==
    /\ InCall /\ phase = "spin" /\ ~Preempted
    /\ SpinExits(fifoReady, stalls)
    /\ phase' = "write"
    /\ polls' = polls + 1
    /\ stalls' = IF fifoReady THEN stalls ELSE stalls + 1
    /\ readyPolls' = IF fifoReady THEN readyPolls + 1 ELSE readyPolls
    /\ lastOp' = IF fifoReady THEN "poll_true" ELSE "poll_false"
    /\ UNCHANGED <<entry, frags, pat, fi, pc, ptr, len, p, i, left, writes, reads,
                   fifoReady, hostGone, fmtFails, results, outcome>>
    /\ UNCHANGED <<irq, overrun>>
    /\ UNCHANGED svars

\* a poll that stays in the loop
PollSpin ==
    /\ InCall /\ phase = "spin" /\ ~Preempted
    /\ ~SpinExits(fifoReady, stalls)
    /\ stalls < MaxStall
    /\ polls' = polls + 1
    /\ stalls' = stalls + 1
    /\ lastOp' = "poll_false"
    /\ UNCHANGED <<entry, frags, pat, fi, pc, phase, ptr, len, p, i, left, writes, reads,
                   readyPolls, fifoReady, hostGone, fmtFails, results, outcome>>
    /\ UNCHANGED <<irq, overrun>>
    /\ UNCHANGED svars

---------------------------------------------------------------------------
(* The writes *)

\* port.write_uN(value read at a), then the code up to the next poll
Emit(w, v, a, site, next) ==
    /\ phase = "write" /\ ~Preempted
    /\ writes' = Append(writes, WriteOp(w, v, a, site))
    /\ reads' = reads \cup {[k |-> fi, a |-> x] : x \in Touched(a, w)}
    /\ Goto(Resume(next))
    /\ phase' = "spin"
    /\ polls' = 0 /\ stalls' = 0
    /\ lastOp' = "write"
    /\ fifoReady' \in (IF hostGone THEN {FALSE} ELSE BOOLEAN)
    /\ Account(entry, fmtFails, Resume(next), fi, fifoReady')
    /\ overrun' = (overrun \/ ~fifoReady)
    /\ UNCHANGED <<entry, frags, pat, readyPolls, hostGone, fmtFails, irq>>
    /\ UNCHANGED svars

\* write_all: port.write_u8(*ptr); ptr = ptr.offset(1); len -= 1;
WriteLead8 ==
    /\ pc = "wa_lead8"
    /\ Emit(8, ReadU8(pat, ptr), ptr, "lead", HalfStep(ptr + 1, len - 1))

\* write_all: port.write_u16(ptr::read(ptr as *const u16)); ptr = ptr.offset(2); len -= 2;
WriteLead16 ==
    /\ pc = "wa_lead16"
    /\ Emit(16, ReadU16(pat, ptr), ptr, "lead", At("al_entry", ptr + 2, len - 2, 0, 0, 0))

\* write_all: the last byte at an address that is 2 mod 4, then return
WriteLast8 ==
    /\ pc = "wa_last8"
    /\ Emit(8, ReadU8(pat, ptr), ptr, "lead", Ret)

\* write_all: write_aligned_impl(port, slice::from_raw_parts(ptr, len)), up to
\* its first poll
Delegate ==
    /\ pc = "al_entry" /\ ~Preempted
    /\ Goto(Resume(AlignedImpl(ptr, len)))
    /\ Account(entry, fmtFails, Resume(AlignedImpl(ptr, len)), fi, fifoReady)
    /\ UNCHANGED <<entry, frags, pat, phase, writes, reads, polls, stalls, readyPolls,
                   lastOp, fifoReady, hostGone, fmtFails>>
    /\ UNCHANGED <<irq, overrun>>
    /\ UNCHANGED svars

\* write_words: stim.write_u32(ptr::read(p)); p = p.offset(1);
WriteWord ==
    /\ pc = "ww"
    /\ Emit(32, ReadU32(pat, p), p, "words", WordsLoop(ptr, len, p + 4, i + 1))

\* write_aligned_impl: port.write_u16(ptr::read(ptr as *const u16)); ptr = ptr.offset(2); left -= 2;
WriteTail16 ==
    /\ pc = "al_tail16"
    /\ Emit(16, ReadU16(pat, ptr), ptr, "tail", FinalByte(ptr + 2, len, left - 2))

\* write_aligned_impl: port.write_u8(*ptr);
WriteTail8 ==
    /\ pc = "al_tail8"
    /\ Emit(8, ReadU8(pat, ptr), ptr, "tail", Ret)

---------------------------------------------------------------------------
(* The debug host *)

\* the host takes the pending item: the port is ready again
HostDrains ==
    /\ ~hostGone /\ ~fifoReady
    /\ fifoReady' = TRUE
    /\ UNCHANGED <<entry, frags, pat, fi, pc, phase, ptr, len, p, i, left, writes, reads,
                   polls, stalls, readyPolls, lastOp, hostGone, fmtFails, results, outcome>>
    /\ UNCHANGED <<irq, overrun>>
    /\ UNCHANGED svars

\* the host stops for good: what is pending is never taken
HostStops ==
    /\ ~hostGone
    /\ hostGone' = TRUE
    /\ UNCHANGED <<entry, frags, pat, fi, pc, phase, ptr, len, p, i, left, writes, reads,
                   polls, stalls, readyPolls, lastOp, fifoReady, fmtFails, results, outcome>>
    /\ UNCHANGED <<irq, overrun>>
    /\ UNCHANGED svars

Next ==
    \/ Call
    \/ PollExit
    \/ PollSpin
    \/ WriteLead8
    \/ WriteLead16
    \/ WriteLast8
    \/ Delegate
    \/ WriteWord
    \/ WriteTail16
    \/ WriteTail8
    \/ HostDrains
    \/ HostStops

Spec == Init /\ [][Next]_vars

---------------------------------------------------------------------------
(* A second writer: an interrupt handler that calls write_all on the same   *)
(* port.  The writer neither masks interrupts nor locks the port, so the    *)
(* handler can come between any two steps of the interrupted call; it runs  *)
(* to its return before the interrupted code goes on.                       *)

MaxIrqLen == 2      \* longest buffer the handler writes

\* the spin loop at or after control point c, or the return
AtLoop(c) ==
    LET d == IF c.pc = "al_entry" THEN After(c) ELSE c
    IN  IF d.pc = "ret" THEN At("done", 0, 0, 0, 0, 0) ELSE d

\* the interrupt is taken during a call; the handler calls write_all
IrqEnter ==
    /\ pc \notin {"idle", "done"}
    /\ irq = IrqOff
    /\ \E b \in Bases, n \in 1 .. MaxIrqLen :
          irq' = [c |-> AtLoop(WriteAllStart(b, n)), phase |-> "spin", n |-> 0]
    /\ UNCHANGED <<entry, frags, pat, fi, pc, phase, ptr, len, p, i, left, writes, reads,
                   polls, stalls, readyPolls, lastOp, fifoReady, hostGone, fmtFails,
                   results, outcome, overrun>>
    /\ UNCHANGED svars

\* the handler's `while !port.is_fifo_ready() {}` is left
IrqPoll ==
    /\ Preempted /\ irq.phase = "spin"
    /\ SpinExits(fifoReady, 0)
    /\ irq' = [irq EXCEPT !.phase = "write"]
    /\ UNCHANGED <<entry, frags, pat, fi, pc, phase, ptr, len, p, i, left, writes, reads,
                   polls, stalls, readyPolls, lastOp, fifoReady, hostGone, fmtFails,
                   results, outcome, overrun>>
    /\ UNCHANGED svars

\* the handler's write, then its code up to its next poll or its return
IrqWrite ==
    /\ Preempted /\ irq.phase = "write"
    /\ irq' = [c |-> AtLoop(After(irq.c)), phase |-> "spin", n |-> irq.n + 1]
    /\ overrun' = (overrun \/ ~fifoReady)
    /\ fifoReady' \in (IF hostGone THEN {FALSE} ELSE BOOLEAN)
    /\ UNCHANGED <<entry, frags, pat, fi, pc, phase, ptr, len, p, i, left, writes, reads,
                   polls, stalls, readyPolls, lastOp, hostGone, fmtFails, results, outcome>>
    /\ UNCHANGED svars

\* the steps of the thread that runs the call
Writer ==
    \/ PollExit
    \/ PollSpin
    \/ WriteLead8
    \/ WriteLead16
    \/ WriteLast8
    \/ Delegate
    \/ WriteWord
    \/ WriteTail16
    \/ WriteTail8

NextDirect ==
    \/ CallDirect
    \/ Writer
    \/ HostDrains
    \/ HostStops

NextIrq ==
    \/ CallDirect
    \/ Writer
    \/ HostDrains
    \/ HostStops
    \/ IrqEnter
    \/ IrqPoll
    \/ IrqWrite

\* write_all / write_aligned with an interrupt handler that writes to the port
SpecIrq == Init /\ [][NextIrq]_vars

\* write_all / write_aligned on a thread that keeps running: the loops and the
\* code between them have no point at which the thread gives up the processor
SpecLive == Init /\ [][NextDirect]_vars /\ WF_vars(Writer)

---------------------------------------------------------------------------
(* singleton! (src/cortex-m/src/macros.rs): one call site, executed by     *)
(* contexts that preempt one another while interrupts are on, and by its   *)
(* own initialiser expression.  An execution in progress is a frame        *)
(* [id, pc, used, expr]; the innermost one runs.                           *)

Values == {"a", "b"}

Frame == [id |-> 0, pc |-> "with", used |-> FALSE, expr |-> "none"]

\* the executions begun so far
Begun == Len(rets) + Cardinality({k \in 1 .. Len(stk) : stk[k].pc = "with"})
Top == stk[Len(stk)]
SetTop(f) == [stk EXCEPT ![Len(stk)] = f]
Pop == SubSeq(stk, 1, Len(stk) - 1)

\* a context reaches the call site: the first one, or one that preempts the
\* others, which it can only while interrupts are on
Execute ==
    /\ Begun < MaxExec
    /\ csDepth = 0
    /\ stk' = Append(stk, Frame)
    /\ UNCHANGED <<VAR0, VAR1, rets, csDepth>>
    /\ UNCHANGED ivars

\* critical_section::with(|_| { ... }): the section is entered; sections nest
EnterSection ==
    /\ stk # <<>> /\ Top.pc = "with"
    /\ csDepth' = csDepth + 1
    /\ stk' = SetTop([Top EXCEPT !.pc = "read", !.id = Len(rets) + 1])
    /\ rets' = Append(rets, "pending")
    /\ UNCHANGED <<VAR0, VAR1>>
    /\ UNCHANGED ivars

\* let used = unsafe { $name.1 }; if used { None } else { ... }
ReadUsed ==
    /\ stk # <<>> /\ Top.pc = "read"
    /\ stk' = SetTop([Top EXCEPT !.used = VAR1, !.pc = IF VAR1 THEN "None" ELSE "expr"])
    /\ UNCHANGED <<VAR0, VAR1, rets, csDepth>>
    /\ UNCHANGED ivars

\* let expr = $expr; where $expr itself reaches the call site
Reenter ==
    /\ stk # <<>> /\ Top.pc = "expr"
    /\ Begun < MaxExec
    /\ stk' = Append(stk, Frame)
    /\ UNCHANGED <<VAR0, VAR1, rets, csDepth>>
    /\ UNCHANGED ivars

\* let expr = $expr; the expression has its value
EvalExpr ==
    /\ stk # <<>> /\ Top.pc = "expr"
    /\ \E v \in Values : stk' = SetTop([Top EXCEPT !.expr = v, !.pc = "set"])
    /\ UNCHANGED <<VAR0, VAR1, rets, csDepth>>
    /\ UNCHANGED ivars

\* $name.1 = true; Some($name.0.write(expr))
SetUsed ==
    /\ stk # <<>> /\ Top.pc = "set"
    /\ VAR1' = TRUE
    /\ VAR0' = Top.expr
    /\ stk' = SetTop([Top EXCEPT !.pc = "Some"])
    /\ UNCHANGED <<rets, csDepth>>
    /\ UNCHANGED ivars

\* the closure returns its Option, the section is left, singleton! returns
LeaveSection ==
    /\ stk # <<>> /\ Top.pc \in {"None", "Some"}
    /\ csDepth' = csDepth - 1
    /\ rets' = [rets EXCEPT ![Top.id] = Top.pc]
    /\ stk' = Pop
    /\ UNCHANGED <<VAR0, VAR1>>
    /\ UNCHANGED ivars

NextSingleton ==
    \/ Execute
    \/ EnterSection
    \/ ReadUsed
    \/ Reenter
    \/ EvalExpr
    \/ SetUsed
    \/ LeaveSection

SpecSingleton == Init /\ [][NextSingleton]_vars

---------------------------------------------------------------------------
(* Properties *)

\* the bytes of one write, lowest address first
BytesOf(op) ==
    CASE op.w = 8 -> <<op.v>>
      [] op.w = 16 -> <<op.v % 256, op.v \div 256>>
      [] op.w = 32 -> <<op.v % 256, (op.v \div 256) % 256, (op.v \div 65536) % 256,
                        op.v \div 16777216>>

\* the byte stream of a sequence of writes
RECURSIVE Stream(_)
Stream(ws) == IF ws = <<>> THEN <<>> ELSE BytesOf(Head(ws)) \o Stream(Tail(ws))

\* the addresses a sequence of writes took its bytes from, in order
RECURSIVE Sources(_)
Sources(ws) ==
    IF ws = <<>> THEN <<>>
    ELSE [k \in 1 .. Head(ws).w \div 8 |-> Head(ws).a + k - 1] \o Sources(Tail(ws))

\* the bytes of slice s
Contents(s) == [k \in 1 .. s.len |-> Mem(pat, s.base + k - 1)]
Addresses(s) == [k \in 1 .. s.len |-> s.base + k - 1]

Widths(ws) == [k \in 1 .. Len(ws) |-> ws[k].w]
Count(ws, w, site) == Cardinality({k \in 1 .. Len(ws) : ws[k].w = w /\ ws[k].site = site})
CountW(ws, w) == Cardinality({k \in 1 .. Len(ws) : ws[k].w = w})

\* the call is one of write_all on its only slice
OneSlice(e) == entry = e /\ Len(frags) = 1

\* C1: when write_all returns, the bytes of its writes, each write taken apart
\* lowest address first and the writes taken in the order issued, are the buffer:
\* N bytes, each byte of the buffer once and in its place.
C1_StreamIsBuffer ==
    (Returned /\ OneSlice("write_all")) =>
        /\ Stream(writes) = Contents(frags[1])
        /\ Sources(writes) = Addresses(frags[1])
        /\ Len(Stream(writes)) = frags[1].len

C1_Witness ==
    /\ Returned /\ OneSlice("write_all")
    /\ frags[1].len = 10 /\ frags[1].base % 4 = 3
    /\ Widths(writes) = <<8, 32, 32, 8>>

\* C2: every port write comes right after an is_fifo_ready poll that returned
\* true, and every such poll is followed by exactly one write; a write whose
\* first K polls returned false is made after exactly K + 1 polls.
C2_ReadinessRespected ==
    /\ [](readyPolls = Len(writes) + (IF lastOp = "poll_true" THEN 1 ELSE 0))
    /\ [](Returned => lastOp # "poll_true")
    /\ [][/\ Len(writes') > Len(writes) =>
                /\ lastOp = "poll_true"
                /\ polls = stalls + 1
                /\ Len(writes') = Len(writes) + 1
          /\ (lastOp = "poll_true" /\ lastOp' # lastOp) =>
                /\ lastOp' = "write"
                /\ Len(writes') = Len(writes) + 1]_vars

C2_Witness ==
    /\ InCall /\ pc = "ww" /\ i = 1
    /\ phase = "write" /\ lastOp = "poll_true"
    /\ stalls = MaxStall /\ polls = MaxStall + 1
    /\ Len(writes) = 3

\* the bytes a call is asked to write
RECURSIVE TotalLen(_)
TotalLen(fs) == IF fs = <<>> THEN 0 ELSE Head(fs).len + TotalLen(Tail(fs))

\* the call has made no port operation
NoPortOp == lastOp = "none" /\ polls = 0 /\ readyPolls = 0 /\ writes = <<>>

\* C3: a call of any entry point with nothing to write (a buffer of length 0,
\* a write_fmt whose output is empty) makes no poll and no write, whatever the
\* base address.
C3_ZeroLengthNoOp ==
    (pc # "idle" /\ TotalLen(frags) = 0) => (Returned /\ NoPortOp /\ reads = {})

C3_Witness ==
    /\ Returned /\ OneSlice("write_all")
    /\ frags[1].len = 0 /\ frags[1].base % 4 = 3
    /\ NoPortOp

Min(S) == CHOOSE x \in S : \A y \in S : x <= y

\* the fewest transfers that cover [a, a + n) in order, a 16-bit transfer
\* starting at an even address and a 32-bit transfer at a multiple of 4
RECURSIVE MinCover(_, _)
MinCover(a, n) ==
    IF n = 0 THEN 0
    ELSE 1 + Min({MinCover(a + 1, n - 1)}
                 \cup (IF n >= 2 /\ a % 2 = 0 THEN {MinCover(a + 2, n - 2)} ELSE {})
                 \cup (IF n >= 4 /\ a % 4 = 0 THEN {MinCover(a + 4, n - 4)} ELSE {}))

\* C4: write_all issues the fewest writes with which the buffer can be covered
\* in order by 8-, 16- and 32-bit transfers, a 16-bit one starting at an even
\* address and a 32-bit one at a multiple of 4.
C4_FewestWrites ==
    (Returned /\ OneSlice("write_all")) =>
        Len(writes) = MinCover(frags[1].base, frags[1].len)

C4_Witness ==
    /\ Returned /\ OneSlice("write_all")
    /\ frags[1].base % 4 = 2 /\ frags[1].len = 13
    /\ Len(writes) = 5

\* the writes of the trailing remainder and the 32-bit writes, as C5 states them
C5_TailAndWords ==
    /\ Count(writes, 16, "tail") <= 1
    /\ Count(writes, 8, "tail") <= 1
    /\ Count(writes, 32, "words") = CountW(writes, 32)
    /\ \A k \in 1 .. Len(writes) : writes[k].site = "words" => writes[k].w = 32
    /\ 4 * CountW(writes, 32)
         = frags[1].len - Len(Stream(SelectSeq(writes, LAMBDA op : op.site # "words")))

\* C5 as stated: the leading correction of write_all (its own writes) holds at
\* most one 8-bit and at most one 16-bit write, the trailing remainder (the
\* writes of the aligned-region writer after its 32-bit writes) at most one
\* 16-bit and at most one 8-bit write, and 32-bit writes cover the rest.
C5_AsStated ==
    (Returned /\ OneSlice("write_all")) =>
        /\ Count(writes, 8, "lead") <= 1
        /\ Count(writes, 16, "lead") <= 1
        /\ C5_TailAndWords

\* C5 amended: as stated, except that for N = 2 at a base address that is
\* 1 mod 4 the leading correction is two 8-bit writes (and nothing else is
\* written).
C5_LeadTailBounds ==
    (Returned /\ OneSlice("write_all")) =>
        /\ Count(writes, 16, "lead") <= 1
        /\ IF frags[1].base % 4 = 1 /\ frags[1].len = 2
           THEN Widths(writes) = <<8, 8>> /\ Count(writes, 8, "lead") = 2
           ELSE Count(writes, 8, "lead") <= 1
        /\ C5_TailAndWords

C5_Witness ==
    /\ Returned /\ OneSlice("write_all")
    /\ frags[1].base % 4 = 1 /\ frags[1].len = 2
    /\ Count(writes, 8, "lead") = 2

\* a write of w bits of the bytes at a
Wr(w, a) ==
    [w |-> w, a |-> a,
     v |-> CASE w = 8 -> ReadU8(pat, a) [] w = 16 -> ReadU16(pat, a) [] w = 32 -> ReadU32(pat, a)]

\* a write as the port receives it: its width, its value, where its bytes were
Seen(ws) == [k \in 1 .. Len(ws) |-> [w |-> ws[k].w, a |-> ws[k].a, v |-> ws[k].v]]

\* C6: for 14 bytes at a base address that is 1 mod 4, write_all issues an
\* 8-bit write of byte 0, a 16-bit write of bytes 1-2, 32-bit writes of bytes
\* 3-6 and 7-10, a 16-bit write of bytes 11-12 and an 8-bit write of byte 13.
C6_OddBaseLength14 ==
    (Returned /\ OneSlice("write_all") /\ frags[1].base % 4 = 1 /\ frags[1].len = 14) =>
        LET b == frags[1].base
        IN  /\ Seen(writes) = <<Wr(8, b), Wr(16, b + 1), Wr(32, b + 3), Wr(32, b + 7),
                                Wr(16, b + 11), Wr(8, b + 13)>>
            /\ CountW(writes, 8) = 2 /\ CountW(writes, 16) = 2 /\ CountW(writes, 32) = 2

C6_Witness ==
    /\ Returned /\ OneSlice("write_all") /\ frags[1].base % 4 = 1 /\ frags[1].len = 14
    /\ Len(writes) = 6

\* C7: for a base address that is a multiple of 4 and a length N that is a
\* positive multiple of 4, write_all and write_aligned each issue N/4 32-bit
\* writes and no 8-bit or 16-bit write.
C7_WholeWordsOnly ==
    (/\ Returned /\ (OneSlice("write_all") \/ OneSlice("write_aligned"))
     /\ frags[1].base % 4 = 0 /\ frags[1].len > 0 /\ frags[1].len % 4 = 0) =>
        /\ CountW(writes, 32) = frags[1].len \div 4
        /\ CountW(writes, 8) = 0 /\ CountW(writes, 16) = 0
        /\ Len(writes) = frags[1].len \div 4

C7_Witness ==
    /\ Returned /\ OneSlice("write_all")
    /\ frags[1].base % 4 = 0 /\ frags[1].len = 4
    /\ Widths(writes) = <<32>>

\* the writes C8 states for n bytes at the 4-aligned address b
AlignedWrites(b, n) ==
    [k \in 1 .. n \div 4 |-> Wr(32, b + 4 * (k - 1))]
    \o (IF n % 4 \in {2, 3} THEN <<Wr(16, b + 4 * (n \div 4))>> ELSE <<>>)
    \o (IF n % 4 \in {1, 3} THEN <<Wr(8, b + n - 1)>> ELSE <<>>)

\* C8: for a 4-aligned buffer of N bytes write_aligned issues floor(N/4)
\* 32-bit writes of the whole words in address order, then one 16-bit write
\* iff N mod 4 is 2 or 3, then one 8-bit write iff N mod 4 is 1 or 3, and
\* nothing else.
C8_AlignedSequence ==
    (Returned /\ OneSlice("write_aligned")) =>
        /\ Seen(writes) = AlignedWrites(frags[1].base, frags[1].len)
        /\ Count(writes, 16, "tail") <= 1 /\ Count(writes, 8, "tail") <= 1

C8_Witness ==
    /\ Returned /\ OneSlice("write_aligned") /\ frags[1].len = 11
    /\ Widths(writes) = <<32, 32, 16, 8>>

\* C9: every memory read of write_all and write_aligned lies inside the
\* buffer [base, base + N).
C9_ReadsInBounds ==
    \A r \in reads :
        /\ r.k \in 1 .. Len(frags)
        /\ r.a >= frags[r.k].base
        /\ r.a < frags[r.k].base + frags[r.k].len

C9_Witness ==
    /\ Returned /\ OneSlice("write_all")
    /\ frags[1].base % 4 = 3 /\ frags[1].len = 12
    /\ Cardinality(reads) = 12

\* every poll from now on returns false
PortStuck == hostGone /\ ~fifoReady

\* C10: once the port is not ready and never will be, a call that is in a spin
\* loop stays in that loop: it issues no further write and does not return.
C10_BlocksForever ==
    [][(InCall /\ PortStuck) =>
          (PortStuck' /\ InCall' /\ pc' = pc /\ fi' = fi /\ phase' = "spin"
           /\ writes' = writes /\ entry' = entry /\ frags' = frags)]_vars

C10_Witness ==
    /\ InCall /\ PortStuck /\ phase = "spin"
    /\ stalls = MaxStall
    /\ writes # <<>> /\ Len(Stream(writes)) < TotalLen(frags)

\* C11: Port::write_str returns Ok for every fragment, whatever the port
\* reported, and write_fmt returns normally to its caller also when the
\* formatting failed.
C11_AlwaysSuccess ==
    /\ \A k \in 1 .. Len(results) : results[k] = "Ok"
    /\ (entry = "write_fmt" /\ InCall) => (Len(results) = fi - 1 /\ outcome = "none")
    /\ Returned <=> outcome = "unit"
    /\ (entry = "write_fmt" /\ Returned) => Len(results) = Len(frags)

C11_Witness ==
    /\ Returned /\ entry = "write_fmt" /\ fmtFails
    /\ Len(frags) = 2 /\ results = <<"Ok", "Ok">>
    /\ PortStuck /\ writes # <<>>
    /\ outcome = "unit"

\* the executions that returned Some
GotSome == {k \in 1 .. Len(rets) : rets[k] = "Some"}

\* C12: of the executions of the call site, in the order in which they enter
\* the critical section, the first returns Some and every later one returns None.
C12_FirstSomeThenNone ==
    \A k \in 1 .. Len(rets) :
        rets[k] # "pending" => rets[k] = (IF k = 1 THEN "Some" ELSE "None")

\* C18: at most one execution of the call site ever returns Some, also when
\* the initialiser expression executes the call site itself.
C18_AtMostOneSome == Cardinality(GotSome) <= 1

\* C13: when write_all reaches its call of write_aligned_impl the current
\* address is a multiple of 4, and every 16-bit read of write_all and
\* write_aligned_impl is at an even address, every 32-bit read at a multiple
\* of 4 (write_aligned being called with a base that is a multiple of 4).
C13_AlignedAccesses ==
    /\ pc = "al_entry" => ptr % 4 = 0
    /\ pc = "ww" => (ptr % 4 = 0 /\ p % 4 = 0)
    /\ pc \in {"wa_lead16", "al_tail16"} => ptr % 2 = 0
    /\ \A k \in 1 .. Len(writes) :
          /\ writes[k].w = 16 => writes[k].a % 2 = 0
          /\ writes[k].w = 32 => writes[k].a % 4 = 0

C13_Witness ==
    /\ pc = "al_entry" /\ OneSlice("write_all")
    /\ frags[1].base % 4 = 1 /\ frags[1].len = 13
    /\ Widths(writes) = <<8, 16>>
    /\ ptr = frags[1].base + 3 /\ len = 10

\* C14: for a buffer at a multiple of 4, write_all and write_aligned issue the
\* same sequence of port operations: the same spin loops and writes (widths,
\* values, addresses) in the same order, each run issuing them in that order.
C14_SameAsAligned ==
    (/\ pc # "idle" /\ (OneSlice("write_all") \/ OneSlice("write_aligned"))
     /\ frags[1].base % 4 = 0) =>
        LET s == frags[1]
            viaAll == OpsFrom(pat, WriteAllStart(s.base, s.len))
            viaAligned == OpsFrom(pat, AlignedImpl(s.base, s.len))
        IN  /\ viaAll = viaAligned
            /\ Len(writes) <= Len(viaAligned)
            /\ writes = SubSeq(viaAligned, 1, Len(writes))
            /\ Returned => writes = viaAligned
            /\ InCall => Issue(pat, At(pc, ptr, len, p, i, left)) = viaAligned[Len(writes) + 1]

C14_Witness ==
    /\ Returned /\ OneSlice("write_all")
    /\ frags[1].base % 4 = 0 /\ frags[1].len = 7
    /\ Widths(writes) = <<32, 16, 8>>
    /\ writes = OpsFrom(pat, AlignedImpl(frags[1].base, frags[1].len))

\* the call has returned with all of its bytes written
Complete == Returned /\ Len(Stream(writes)) = TotalLen(frags)

\* C15: if the port is ready again and again, every call of write_all and
\* write_aligned returns, having issued all of its writes.
C15_Terminates ==
    ([]<>fifoReady) => [](pc # "idle" => <>Complete)

C15_Witness ==
    /\ Complete /\ OneSlice("write_all")
    /\ frags[1].base % 4 = 1 /\ frags[1].len = 14
    /\ Len(writes) = 6 /\ ~hostGone

\* C16: the writer does not lock the port: with a second writer (an interrupt
\* handler that comes between a poll and its write) a write is issued while the
\* port is not ready, the handler having used up the readiness observed; a
\* writer that has the port to itself never writes to a port that is not ready.
C16_OverrunOnlyWhenShared == overrun => irq.n > 0

C16_Witness ==
    /\ overrun /\ irq.c.pc = "done" /\ irq.n = 1
    /\ lastOp = "write" /\ Len(writes) = 2 /\ readyPolls = 2

\* the writes of one write_all call per slice, the calls in the order of the slices
RECURSIVE CallPerSlice(_)
CallPerSlice(fs) ==
    IF fs = <<>> THEN <<>>
    ELSE OpsFrom(pat, WriteAllStart(Head(fs).base, Head(fs).len)) \o CallPerSlice(Tail(fs))

\* the bytes of the slices, one slice after the other
RECURSIVE Concatenation(_)
Concatenation(fs) ==
    IF fs = <<>> THEN <<>> ELSE Contents(Head(fs)) \o Concatenation(Tail(fs))

\* C17: when write_fmt returns, its writes are those of one write_all call per
\* fragment, in the order of the fragments, each split by the alignment of that
\* fragment's own base address, and their byte stream is the fragments' bytes
\* one fragment after the other; write_str makes the writes of write_all on the
\* bytes of its string, each after one poll that found the port ready.
C17_FragmentsForwarded ==
    (Returned /\ entry \in {"write_fmt", "write_str"}) =>
        /\ writes = CallPerSlice(frags)
        /\ Stream(writes) = Concatenation(frags)
        /\ readyPolls = Len(writes)
        /\ entry = "write_str" =>
              /\ Len(frags) = 1
              /\ writes = OpsFrom(pat, WriteAllStart(frags[1].base, frags[1].len))

C17_Witness ==
    /\ Returned /\ entry = "write_fmt" /\ Len(frags) = 2
    /\ frags[1].base % 4 = 1 /\ frags[1].len = 3
    /\ frags[2].base % 4 = 2 /\ frags[2].len = 3
    /\ Widths(writes) = <<8, 16, 16, 8>>

===========================================================================
